---- MODULE Spec2Model ----
(***************************************************************************)
(* Model of setup.py of dd-trace-py: the best-effort build of the vendored *)
(* C extensions (msgpack, wrapt, psutil) with a fallback to a pure-Python  *)
(* installation.                                                           *)
(*                                                                         *)
(* One behaviour is one run of the script.  The environment (platform,     *)
(* os.environ, what each vendored setup module does, what each compiler    *)
(* invocation does, what setuptools does outside the build step) is chosen *)
(* nondeterministically.                                                   *)
(***************************************************************************)
EXTENDS Integers, Sequences, FiniteSets, TLC

VARIABLES
    platform,      \* sys.platform
    environ,       \* os.environ restricted to the names the script may read
    pc,            \* position of the run in the module-level code
    exc,           \* exception being propagated / bound to `e`: [kind, origin]
    exts,          \* the list `exts` of the try block
    loaded,        \* per sub-project: what loading and querying it did: [status, exts]
    setup_kwargs,  \* the module-level base dict: [has_ext_modules, ext_modules, cmdclass]
    kwargs,        \* the derived dict of State A (same shape)
    heap,          \* dict objects referenced by the "cmdclass" entries
    calls,         \* the configurations setup() has been called with, in order
    idx,           \* position of build_ext's loop over self.extensions
    attempts,      \* build_ext.build_extension calls made: [ext, ok]
    built,         \* extensions whose build completed, in order
    warnings,      \* WARNING lines printed, in order: [level, component]
    installed,     \* what the run has installed: [pure, exts]
    outcome        \* how the run ended

vars == <<platform, environ, pc, exc, exts, loaded, setup_kwargs, kwargs, heap,
          calls, idx, attempts, built, warnings, installed, outcome>>

----------------------------------------------------------------------------
(* Bounds *)

\* largest number of extensions the three vendored setup modules return together
MaxExts == 3

\* extension names the vendored modules may return (shared, so names may collide)
ExtNames == {"a", "b"}

ExtLists == UNION {[1..n -> ExtNames] : n \in 0..MaxExts}

\* values of an environment variable; UNSET is os.environ.get(...) returning None
UNSET == "<unset>"
EnvValues == {UNSET, "TRUE", "true"}

\* the environments of a run: the variable the code reads (line 200) and the
\* one its comment names (line 199)
Environments ==
    [DDTRACE_BUILD_RAISE : EnvValues, DDTRACE_BUILD_TRACE : {UNSET, "TRUE"}]

Platforms == {"win32", "linux"}

----------------------------------------------------------------------------
(* Exceptions *)

NoError == "none"

\* Exception classes that derive from Exception
ExceptionKinds == {"CCompilerError", "DistutilsExecError", "DistutilsPlatformError",
                   "IOError", "OSError", "RuntimeError"}

\* SystemExit derives from BaseException only
Kinds == ExceptionKinds \cup {"SystemExit"}

NoExc == [kind |-> NoError, origin |-> "none"]

\* `except Exception` (lines 154, 163, 172, 198)
IsException(k) == k \in ExceptionKinds

\* build_ext_errors without the except clause's distutils exec error
build_ext_errors_no_exec ==
    IF platform = "win32"
    THEN {"CCompilerError", "DistutilsPlatformError", "IOError", "OSError"}
    ELSE {"CCompilerError", "DistutilsPlatformError"}

\* build_ext_errors with the win32 tuple on every platform
build_ext_errors_win32_everywhere ==
    {"CCompilerError", "DistutilsExecError", "DistutilsPlatformError", "IOError", "OSError"}

\* lines 123-126
build_ext_errors ==
    IF platform = "win32"
    THEN {"CCompilerError", "DistutilsExecError", "DistutilsPlatformError", "IOError", "OSError"}
    ELSE {"CCompilerError", "DistutilsExecError", "DistutilsPlatformError"}

\* run_catches with the handler naming the compiler error instead
run_catches_compiler(k) == k = "CCompilerError"

\* run_catches with the handler naming the tuple build_ext_errors
run_catches_build_ext_errors(k) == k \in build_ext_errors

\* `except DistutilsPlatformError` of optional_build_ext.run (line 139)
run_catches(k) == k = "DistutilsPlatformError"

\* build_raise_requested reading the variable the comment of line 199 names
build_raise_requested_trace == environ.DDTRACE_BUILD_TRACE = "TRUE"

\* build_raise_requested comparing with the lower-case spelling
build_raise_requested_lower == environ.DDTRACE_BUILD_RAISE = "true"

\* build_raise_requested comparing without regard to case
build_raise_requested_nocase == environ.DDTRACE_BUILD_RAISE \in {"TRUE", "true"}

\* os.environ.get("DDTRACE_BUILD_RAISE") == "TRUE" (line 200)
build_raise_requested == environ.DDTRACE_BUILD_RAISE = "TRUE"

----------------------------------------------------------------------------
(* Initial state: the module has been executed down to line 177 *)

NoConfig == [has_ext_modules |-> FALSE, ext_modules |-> <<>>, cmdclass |-> 0]

Projects == <<"msgpack", "wrapt", "psutil">>

Init ==
    /\ platform \in Platforms
    /\ environ \in Environments
    /\ pc = "msgpack"
    /\ exc = NoExc
    /\ exts = <<>>
    /\ loaded = [p \in {"msgpack", "wrapt", "psutil"} |-> [status |-> "pending", exts |-> <<>>]]
    /\ setup_kwargs = [has_ext_modules |-> FALSE, ext_modules |-> <<>>, cmdclass |-> 1]
    /\ kwargs = NoConfig
    /\ heap = (1 :> ("test" :> "Tox"))
    /\ calls = <<>>
    /\ idx = 0
    /\ attempts = <<>>
    /\ built = <<>>
    /\ warnings = <<>>
    /\ installed = [pure |-> FALSE, exts |-> <<>>]
    /\ outcome = "running"

----------------------------------------------------------------------------
(* Extension Loader and Aggregator (lines 150-190) *)

\* What load_module_from_project_file(...) followed by get_extensions() does
LoaderOutcomes ==
    [raised : {TRUE}, kind : Kinds, exts : {<<>>}]
        \cup [raised : {FALSE}, kind : {NoError}, exts : ExtLists]

\* value returned by get_<project>_extensions() when the error, if any, is caught
loader_return(o) == IF o.raised THEN <<>> ELSE o.exts

\* extend_if with the new list put in front of the collected ones
extend_if_front(l, xs) == IF xs # <<>> THEN xs \o l ELSE l

\* `if xs: exts.extend(xs)` (lines 181-182, 185-186, 189-190)
extend_if(l, xs) == IF xs # <<>> THEN l \o xs ELSE l

\* Warn with the print left out
Warn_silent(level, component) == warnings

\* print("WARNING: ...") (lines 141, 147, 155, 164, 173, 203)
Warn(level, component) == Append(warnings, [level |-> level, component |-> component])

\* One get_<p>_extensions() call and the aggregation of its result
get_extensions(p, next) ==
    /\ pc = p
    /\ \E o \in LoaderOutcomes :
          /\ Len(exts) + Len(o.exts) <= MaxExts
          /\ loaded' = [loaded EXCEPT ![p] =
                            [status |-> IF ~o.raised THEN "returned"
                                        ELSE IF o.kind = "SystemExit" THEN "exited"
                                        ELSE "raised",
                             exts   |-> o.exts]]
          /\ IF o.raised /\ ~IsException(o.kind)
             THEN \* passes the loader's `except Exception`
                  /\ exc' = [kind |-> o.kind, origin |-> "loader"]
                  /\ pc' = "except"
                  /\ UNCHANGED <<exts, warnings>>
             ELSE /\ warnings' = IF o.raised THEN Warn("subproject", p) ELSE warnings
                  /\ exts' = extend_if(exts, loader_return(o))
                  /\ pc' = next
                  /\ UNCHANGED exc
    /\ UNCHANGED <<platform, environ, setup_kwargs, kwargs, heap, calls, idx,
                   attempts, built, installed, outcome>>

get_msgpack_extensions == get_extensions("msgpack", "wrapt")

get_wrapt_extensions == get_extensions("wrapt", "psutil")

get_psutil_extensions == get_extensions("psutil", "configure")

----------------------------------------------------------------------------
(* State A: derived configuration (lines 192-196) *)

\* copy.copy in place of deepcopy: the nested cmdclass dict is shared
copy_shallow(d, h) == [dict |-> d, heap |-> h]

\* copy.deepcopy of a configuration: the nested cmdclass dict is a new object
deepcopy(d, h) ==
    LET fresh == 1 + Cardinality(DOMAIN h)
    IN  [dict |-> [d EXCEPT !.cmdclass = fresh],
         heap |-> (fresh :> h[d.cmdclass]) @@ h]

\* the keyword arguments a setup() call receives
Snapshot(d, h) ==
    [has_ext_modules |-> d.has_ext_modules,
     ext_modules     |-> d.ext_modules,
     cmdclass        |-> h[d.cmdclass]]

\* `setdefault("cmdclass", dict())` leaves the dict alone: the base has the key
configure ==
    /\ pc = "configure"
    /\ LET c == deepcopy(setup_kwargs, heap)
           k == [c.dict EXCEPT !.has_ext_modules = TRUE, !.ext_modules = exts]
       IN  /\ kwargs' = k
           /\ heap' = [c.heap EXCEPT ![k.cmdclass] =
                          ("build_ext" :> "optional_build_ext") @@ @]
    /\ pc' = "setup"
    /\ UNCHANGED <<platform, environ, exc, exts, loaded, setup_kwargs, calls, idx,
                   attempts, built, warnings, installed, outcome>>

----------------------------------------------------------------------------
\* State A: the setup call of line 197 and the Resilient Build Step
\* (lines 135-147)

\* what one call into the build tooling does: it returns or raises
Outcomes == {NoError} \cup Kinds

\* what setup() does outside the build step: it goes on, raises an ordinary
\* exception, or exits (SystemExit)
SetupOutcomes == {NoError, "RuntimeError", "SystemExit"}

\* setup() up to the build_ext command
setup_begin ==
    /\ pc = "setup"
    /\ calls' = Append(calls, Snapshot(kwargs, heap))
    /\ \E o \in SetupOutcomes :
          IF o = NoError
          THEN pc' = "build_ext_run" /\ UNCHANGED exc
          ELSE pc' = "except" /\ exc' = [kind |-> o, origin |-> "setup"]
    /\ UNCHANGED <<platform, environ, exts, loaded, setup_kwargs, kwargs, heap, idx,
                   attempts, built, warnings, installed, outcome>>

ExtensionNames == kwargs.ext_modules

\* optional_build_ext.run, the try: build_ext.run(self) up to its loop over the
\* extensions
build_ext_run_call ==
    /\ pc = "build_ext_run"
    /\ \E o \in Outcomes :
          IF o = NoError
          THEN /\ pc' = "build_extension"
               /\ idx' = 1
               /\ UNCHANGED exc
          ELSE /\ exc' = [kind |-> o, origin |-> "build_run"]
               /\ pc' = "build_ext_run_except"
               /\ UNCHANGED idx
    /\ UNCHANGED <<platform, environ, exts, loaded, setup_kwargs, kwargs, heap, calls,
                   attempts, built, warnings, installed, outcome>>

\* optional_build_ext.run, `except DistutilsPlatformError as e` (lines 139-141)
optional_build_ext_run ==
    /\ pc = "build_ext_run_except"
    /\ IF run_catches(exc.kind)
       THEN /\ warnings' = Warn("build", ExtensionNames)
            /\ exc' = NoExc
            /\ pc' = "setup_finish"
       ELSE /\ pc' = "setup_raise"
            /\ UNCHANGED <<exc, warnings>>
    /\ UNCHANGED <<platform, environ, exts, loaded, setup_kwargs, kwargs, heap, calls,
                   idx, attempts, built, installed, outcome>>

\* optional_build_ext.build_extension, the try: build_ext.build_extension(self, ext)
\* for the next extension of the loop
build_extension_call ==
    /\ pc = "build_extension"
    /\ idx <= Len(ExtensionNames)
    /\ LET ext == ExtensionNames[idx]
       IN  \E o \in Outcomes :
              /\ attempts' = Append(attempts, [ext |-> ext, ok |-> o = NoError])
              /\ IF o = NoError
                 THEN /\ built' = Append(built, ext)
                      /\ idx' = idx + 1
                      /\ UNCHANGED <<pc, exc>>
                 ELSE /\ exc' = [kind |-> o, origin |-> "build_extension"]
                      /\ pc' = "build_extension_except"
                      /\ UNCHANGED <<built, idx>>
    /\ UNCHANGED <<platform, environ, exts, loaded, setup_kwargs, kwargs, heap, calls,
                   warnings, installed, outcome>>

\* optional_build_ext.build_extension, `except build_ext_errors as e` (lines
\* 146-147); an error it lets through reaches run()'s handler
optional_build_ext_build_extension ==
    /\ pc = "build_extension_except"
    /\ IF exc.kind \in build_ext_errors
       THEN /\ warnings' = Warn("extension", ExtensionNames[idx])
            /\ idx' = idx + 1
            /\ exc' = NoExc
            /\ pc' = "build_extension"
       ELSE /\ pc' = "build_ext_run_except"
            /\ UNCHANGED <<exc, idx, warnings>>
    /\ UNCHANGED <<platform, environ, exts, loaded, setup_kwargs, kwargs, heap, calls,
                   attempts, built, installed, outcome>>

\* the loop over the extensions is exhausted: the build step returns
build_extensions_done ==
    /\ pc = "build_extension"
    /\ idx > Len(ExtensionNames)
    /\ pc' = "setup_finish"
    /\ UNCHANGED <<platform, environ, exc, exts, loaded, setup_kwargs, kwargs, heap,
                   calls, idx, attempts, built, warnings, installed, outcome>>

\* How setup() reports an error of a command: distutils turns its own errors
\* and OS errors into SystemExit unless DISTUTILS_DEBUG is set
setup_reports(k) ==
    IF k \in {"CCompilerError", "DistutilsExecError", "DistutilsPlatformError",
              "IOError", "OSError"}
    THEN {k, "SystemExit"}
    ELSE {k}

\* an error of the build step leaves the setup call of State A
setup_raise ==
    /\ pc = "setup_raise"
    /\ \E k \in setup_reports(exc.kind) : exc' = [exc EXCEPT !.kind = k]
    /\ pc' = "except"
    /\ UNCHANGED <<platform, environ, exts, loaded, setup_kwargs, kwargs, heap, calls,
                   idx, attempts, built, warnings, installed, outcome>>

\* setup_finish keeping the built extensions only when all of them were built
setup_finish_all_or_nothing ==
    /\ pc = "setup_finish"
    /\ \E o \in {NoError, "RuntimeError", "SystemExit"} :
          IF o = NoError
          THEN /\ installed' = [pure |-> TRUE,
                                exts |-> IF Len(built) = Len(kwargs.ext_modules)
                                         THEN built ELSE <<>>]
               /\ outcome' = "A_success"
               /\ pc' = "done"
               /\ UNCHANGED exc
          ELSE /\ exc' = [kind |-> o, origin |-> "setup"]
               /\ pc' = "except"
               /\ UNCHANGED <<installed, outcome>>
    /\ UNCHANGED <<platform, environ, exts, loaded, setup_kwargs, kwargs, heap, calls,
                   idx, attempts, built, warnings>>

\* setup() after the build step: the rest of the installation
setup_finish ==
    /\ pc = "setup_finish"
    /\ \E o \in SetupOutcomes :
          IF o = NoError
          THEN /\ installed' = [pure |-> TRUE, exts |-> built]
               /\ outcome' = "A_success"
               /\ pc' = "done"
               /\ UNCHANGED exc
          ELSE /\ exc' = [kind |-> o, origin |-> "setup"]
               /\ pc' = "except"
               /\ UNCHANGED <<installed, outcome>>
    /\ UNCHANGED <<platform, environ, exts, loaded, setup_kwargs, kwargs, heap, calls,
                   idx, attempts, built, warnings>>

----------------------------------------------------------------------------
(* Installation Fallback (lines 198-204) *)

\* an exception left the try block: `except Exception as e` and lines 200-203
except_handler ==
    /\ pc = "except"
    /\ IF ~IsException(exc.kind)
       THEN \* not an Exception: the handler is not entered
            /\ outcome' = "A_uncaught"
            /\ pc' = "done"
            /\ UNCHANGED warnings
       ELSE IF build_raise_requested
       THEN /\ outcome' = "A_reraised"
            /\ pc' = "done"
            /\ UNCHANGED warnings
       ELSE /\ warnings' = Warn("fallback", "ddtrace C-extensions")
            /\ pc' = "setup_fallback"
            /\ UNCHANGED outcome
    /\ UNCHANGED <<platform, environ, exc, exts, loaded, setup_kwargs, kwargs, heap,
                   calls, idx, attempts, built, installed>>

\* setup_fallback with the call guarded: a failure is printed and dropped
setup_fallback_guarded ==
    /\ pc = "setup_fallback"
    /\ calls' = Append(calls, [has_ext_modules |-> setup_kwargs.has_ext_modules,
                               ext_modules     |-> setup_kwargs.ext_modules,
                               cmdclass        |-> heap[setup_kwargs.cmdclass]])
    /\ \E o \in {NoError, "RuntimeError", "SystemExit"} :
          IF o = NoError
          THEN /\ installed' = [pure |-> TRUE, exts |-> <<>>]
               /\ outcome' = "B_success"
               /\ UNCHANGED <<exc, warnings>>
          ELSE /\ warnings' = Append(warnings, [level |-> "fallback",
                                                component |-> "pure-Python"])
               /\ outcome' = "B_success"
               /\ UNCHANGED <<exc, installed>>
    /\ pc' = "done"
    /\ UNCHANGED <<platform, environ, exts, loaded, setup_kwargs, kwargs, heap, idx,
                   attempts, built>>

\* State B: the setup call of line 204 with the base dict, not guarded
setup_fallback ==
    /\ pc = "setup_fallback"
    /\ calls' = Append(calls, Snapshot(setup_kwargs, heap))
    /\ \E o \in SetupOutcomes :
          IF o = NoError
          THEN /\ installed' = [pure |-> TRUE, exts |-> <<>>]
               /\ outcome' = "B_success"
               /\ UNCHANGED exc
          ELSE /\ exc' = [kind |-> o, origin |-> "fallback"]
               /\ outcome' = "B_failed"
               /\ UNCHANGED installed
    /\ pc' = "done"
    /\ UNCHANGED <<platform, environ, exts, loaded, setup_kwargs, kwargs, heap, idx,
                   attempts, built, warnings>>

----------------------------------------------------------------------------

Next ==
    \/ get_msgpack_extensions
    \/ get_wrapt_extensions
    \/ get_psutil_extensions
    \/ configure
    \/ setup_begin
    \/ build_ext_run_call
    \/ optional_build_ext_run
    \/ build_extension_call
    \/ optional_build_ext_build_extension
    \/ build_extensions_done
    \/ setup_raise
    \/ setup_finish
    \/ except_handler
    \/ setup_fallback

Spec == Init /\ [][Next]_vars

----------------------------------------------------------------------------
(* Properties *)

\* what a sub-project contributes to the combined list
Contribution(p) == IF loaded[p].status = "returned" THEN loaded[p].exts ELSE <<>>

WarningsOf(level) == SelectSeq(warnings, LAMBDA w : w.level = level)

FallbackWarning == [level |-> "fallback", component |-> "ddtrace C-extensions"]

\* the base package metadata as a setup() call receives it
BaseConfig ==
    [has_ext_modules |-> FALSE, ext_modules |-> <<>>, cmdclass |-> ("test" :> "Tox")]

\* C1: the combined list is the concatenation, in the order msgpack, wrapt,
\* psutil, of the lists the loaders returned (a loader that failed or returned
\* nothing adds nothing, equal names are kept), and while every loader failure
\* is an error (an Exception) no exception leaves the aggregation.
C1_Aggregation ==
    /\ exts = Contribution("msgpack") \o Contribution("wrapt") \o Contribution("psutil")
    /\ (\A p \in DOMAIN loaded : loaded[p].status # "exited")
          => /\ exc.origin # "loader"
             /\ \A i \in 1..3 :
                   loaded[Projects[i]].status = "pending"
                      <=> pc \in {Projects[j] : j \in 1..i}

C1_Witness ==
    /\ pc = "configure"
    /\ loaded["msgpack"] = [status |-> "returned", exts |-> <<"b">>]
    /\ loaded["wrapt"].status = "raised"
    /\ loaded["psutil"] = [status |-> "returned", exts |-> <<"a", "b">>]
    /\ exts = <<"b", "a", "b">>
    /\ WarningsOf("subproject") = <<[level |-> "subproject", component |-> "wrapt"]>>

\* C2: when an ordinary exception leaves the State A attempt and
\* DDTRACE_BUILD_RAISE is unset, the handler prints one fallback warning and
\* the installation runs a second time with the base configuration (no
\* extensions); if that call succeeds the run ends in success.
C2_FallbackStep ==
    /\ (pc = "except" /\ exc.kind \in ExceptionKinds /\ environ.DDTRACE_BUILD_RAISE = UNSET)
          => /\ pc' = "setup_fallback"
             /\ warnings' = Append(warnings, FallbackWarning)
             /\ calls' = calls
    /\ pc = "setup_fallback"
          => /\ pc' = "done"
             /\ Len(calls') = 2
             /\ ~calls'[2].has_ext_modules
             /\ calls'[2].ext_modules = <<>>
             /\ outcome' \in {"B_success", "B_failed"}
             /\ installed'.pure <=> outcome' = "B_success"
             /\ installed'.exts = <<>>
             /\ warnings' = warnings

C2_Fallback ==
    /\ [](pc = "setup_fallback" => Len(WarningsOf("fallback")) = 1 /\ Len(calls) = 1)
    /\ [][C2_FallbackStep]_vars

C2_Witness ==
    /\ outcome = "B_success"
    /\ environ.DDTRACE_BUILD_RAISE = UNSET
    /\ environ.DDTRACE_BUILD_TRACE = "TRUE"
    /\ platform = "linux"
    /\ exc = [kind |-> "OSError", origin |-> "build_extension"]
    /\ Len(calls) = 2
    /\ calls[1].ext_modules # <<>>
    /\ calls[2] = BaseConfig
    /\ installed = [pure |-> TRUE, exts |-> <<>>]

\* C3: when an exception leaves State A and DDTRACE_BUILD_RAISE is "TRUE", the
\* run ends with that same exception propagating; the installation without
\* extensions is never run and no fallback warning is printed.
C3_StrictStep ==
    (pc = "except" /\ environ.DDTRACE_BUILD_RAISE = "TRUE")
       => /\ pc' = "done"
          /\ outcome' \in {"A_reraised", "A_uncaught"}
          /\ exc' = exc
          /\ warnings' = warnings
          /\ calls' = calls

C3_Strict ==
    /\ [](environ.DDTRACE_BUILD_RAISE = "TRUE"
            => /\ pc # "setup_fallback"
               /\ outcome \notin {"B_success", "B_failed"}
               /\ Len(calls) <= 1
               /\ WarningsOf("fallback") = <<>>)
    /\ [][C3_StrictStep]_vars

C3_Witness ==
    /\ outcome = "A_reraised"
    /\ environ.DDTRACE_BUILD_RAISE = "TRUE"
    /\ environ.DDTRACE_BUILD_TRACE = UNSET
    /\ exc = [kind |-> "RuntimeError", origin |-> "build_extension"]
    /\ Len(calls) = 1
    /\ ~installed.pure

\* C4: a run in which the only failures are failures of extensions (a
\* sub-project that fails to load, a build that fails) ends with the
\* pure-Python package installed.
C4_NeverBlocked ==
    (pc = "done" /\ exc.origin \in {"none", "loader", "build_run", "build_extension"}
        /\ outcome # "B_failed")
       => installed.pure

AttemptedNames == [i \in 1..Len(attempts) |-> attempts[i].ext]

OkNames(as) == LET ok == SelectSeq(as, LAMBDA a : a.ok) IN [i \in 1..Len(ok) |-> ok[i].ext]

RecognizedEverywhere == {"CCompilerError", "DistutilsExecError", "DistutilsPlatformError"}

RecognizedOn(pf) ==
    IF pf = "win32" THEN RecognizedEverywhere \cup {"IOError", "OSError"}
    ELSE RecognizedEverywhere

\* C5: the build step attempts the requested extensions in order; a build that
\* raises an error of the recognized set is skipped with one warning and the
\* next extension is attempted; the built extensions are exactly those whose
\* build did not raise, and when the loop ends every extension was attempted.
C5_ContinueStep ==
    (pc = "build_extension_except" /\ exc.kind \in RecognizedOn(platform))
       => /\ pc' = "build_extension"
          /\ idx' = idx + 1
          /\ exc' = NoExc
          /\ attempts' = attempts /\ built' = built
          /\ warnings' = Append(warnings, [level |-> "extension",
                                           component |-> ExtensionNames[idx]])

C5_BuildLoop ==
    /\ [](/\ Len(attempts) <= Len(ExtensionNames)
          /\ AttemptedNames = SubSeq(ExtensionNames, 1, Len(attempts))
          /\ built = OkNames(attempts)
          /\ pc = "build_extension" => Len(attempts) = idx - 1
          /\ (pc = "setup_finish" /\ WarningsOf("build") = <<>>)
                => Len(attempts) = Len(ExtensionNames))
    /\ [][C5_ContinueStep]_vars

C5_Witness ==
    /\ pc = "setup_finish"
    /\ ExtensionNames = <<"a", "b", "a">>
    /\ attempts = <<[ext |-> "a", ok |-> FALSE], [ext |-> "b", ok |-> TRUE],
                    [ext |-> "a", ok |-> FALSE]>>
    /\ built = <<"b">>
    /\ Len(WarningsOf("extension")) = 2
    /\ exc = NoExc

\* C6: when build_ext.run raises the unsupported-platform error, run() returns
\* normally after one warning that lists the names of all requested
\* extensions, and no extension is built.
C6_PlatformStep ==
    (pc = "build_ext_run_except" /\ exc.kind = "DistutilsPlatformError")
       => /\ pc' = "setup_finish"
          /\ exc' = NoExc
          /\ warnings' = Append(warnings, [level |-> "build", component |-> exts])
          /\ built' = <<>>

C6_WholeBuild ==
    /\ [](/\ Len(WarningsOf("build")) <= 1
          /\ WarningsOf("build") # <<>> => built = <<>> /\ attempts = <<>>)
    /\ [][C6_PlatformStep]_vars

C6_Witness ==
    /\ pc = "setup_finish"
    /\ exts = <<"a", "b">>
    /\ WarningsOf("build") = <<[level |-> "build", component |-> <<"a", "b">>]>>
    /\ built = <<>>
    /\ exc = NoExc

BuildStepLeft == {"setup_raise", "except", "setup_fallback", "done"}

\* C7: an error of one extension's build is caught iff its kind is in the
\* platform's set (compiler, exec, platform error; on win32 also IOError and
\* OSError); any other error leaves the build step unchanged and no further
\* extension is attempted.
C7_CatchStep ==
    /\ pc = "build_extension_except"
          => /\ (pc' = "build_extension" /\ exc' = NoExc) <=> exc.kind \in RecognizedOn(platform)
             /\ exc.kind \notin RecognizedOn(platform)
                   => pc' = "build_ext_run_except" /\ exc' = exc /\ warnings' = warnings
    /\ (pc = "build_ext_run_except" /\ exc.origin = "build_extension")
          => pc' = "setup_raise" /\ exc' = exc /\ warnings' = warnings
    /\ (pc \in BuildStepLeft \/ (pc = "build_ext_run_except" /\ exc.origin = "build_extension"))
          => attempts' = attempts /\ built' = built /\ pc' \in BuildStepLeft

C7_RecognizedSet == [][C7_CatchStep]_vars

C7_Witness ==
    /\ pc = "setup_raise"
    /\ platform = "linux"
    /\ exc = [kind |-> "IOError", origin |-> "build_extension"]
    /\ Len(ExtensionNames) = 3
    /\ attempts = <<[ext |-> ExtensionNames[1], ok |-> FALSE],
                    [ext |-> ExtensionNames[2], ok |-> FALSE]>>
    /\ Len(WarningsOf("extension")) = 1

\* C8: with DDTRACE_BUILD_RAISE unset, a run whose failures come from loading
\* or building extensions fails only by a failure of the second, extension-less
\* installation.
C8_FailsOnlyInStateB ==
    (pc = "done" /\ environ.DDTRACE_BUILD_RAISE = UNSET
        /\ outcome \notin {"A_success", "B_success"}
        /\ exc.origin # "setup")
       => outcome = "B_failed" /\ Len(calls) = 2

\* C9: with DDTRACE_BUILD_RAISE set to "TRUE", a run in which an extension
\* failed to build or a sub-project failed to load ends in failure.
C9_StrictIsFatal ==
    (pc = "done" /\ environ.DDTRACE_BUILD_RAISE = "TRUE"
        /\ \/ \E i \in 1..Len(attempts) : ~attempts[i].ok
           \/ \E p \in DOMAIN loaded : loaded[p].status \in {"raised", "exited"})
       => outcome \notin {"A_success", "B_success"}

\* C10: a failure of the extension-less installation ends the run as a failure
\* with that error propagating: nothing is installed, no warning follows the
\* fallback warning and setup() is not called a third time.
C10_FallbackFailureFatal ==
    /\ Len(calls) <= 2
    /\ (pc = "done" /\ Len(calls) = 2 /\ ~installed.pure)
          => /\ outcome = "B_failed"
             /\ exc.origin = "fallback"
             /\ exc.kind \in Kinds
             /\ warnings[Len(warnings)] = FallbackWarning
             /\ Len(WarningsOf("fallback")) = 1

C10_Witness ==
    /\ outcome = "B_failed"
    /\ exc = [kind |-> "RuntimeError", origin |-> "fallback"]
    /\ Len(calls) = 2
    /\ calls[2] = BaseConfig
    /\ installed = [pure |-> FALSE, exts |-> <<>>]

\* the sub-projects whose loader failed with an error, in loading order
FailedProjects == SelectSeq(Projects, LAMBDA p : loaded[p].status = "raised")

\* the failed builds that build_extension has skipped, in order
SkippedBuilds ==
    SelectSeq([i \in 1..Len(attempts) |-> [i |-> i, a |-> attempts[i]]],
              LAMBDA r : ~r.a.ok /\ r.i < idx)

StateBEntered == pc = "setup_fallback" \/ Len(calls) = 2

\* C11: the warnings printed are exactly one per demoted failure, naming its
\* component: one per sub-project whose loader failed, one per extension whose
\* failed build was skipped, one for a whole-build platform failure (naming all
\* extensions) and one for the transition to State B; a run in which the three
\* loaders return, the build loop runs over every extension and every build
\* succeeds prints nothing and installs all extensions.
C11_BuildWarningStep ==
    /\ (pc = "build_ext_run_except" /\ exc.kind = "DistutilsPlatformError")
          => warnings' = Append(warnings, [level |-> "build", component |-> exts])
    /\ WarningsOf("build")' # WarningsOf("build")
          => /\ pc = "build_ext_run_except"
             /\ exc = [kind |-> "DistutilsPlatformError", origin |-> "build_run"]
    /\ Len(warnings') <= Len(warnings) + 1
    /\ SubSeq(warnings', 1, Len(warnings)) = warnings

C11_WarningsState ==
    /\ \A i \in 1..Len(warnings) :
          warnings[i].level \in {"subproject", "extension", "build", "fallback"}
    /\ WarningsOf("subproject")
          = [i \in 1..Len(FailedProjects) |->
                [level |-> "subproject", component |-> FailedProjects[i]]]
    /\ WarningsOf("extension")
          = [i \in 1..Len(SkippedBuilds) |->
                [level |-> "extension", component |-> SkippedBuilds[i].a.ext]]
    /\ WarningsOf("fallback") = IF StateBEntered THEN <<FallbackWarning>> ELSE <<>>
    /\ Len(WarningsOf("build")) <= 1
    /\ (/\ outcome = "A_success"
        /\ \A p \in DOMAIN loaded : loaded[p].status = "returned"
        /\ idx = Len(exts) + 1
        /\ \A i \in 1..Len(attempts) : attempts[i].ok)
          => warnings = <<>> /\ installed = [pure |-> TRUE, exts |-> exts]

C11_Warnings == []C11_WarningsState /\ [][C11_BuildWarningStep]_vars

C11_Witness ==
    /\ outcome = "B_success"
    /\ warnings = <<[level |-> "subproject", component |-> "wrapt"],
                    [level |-> "extension", component |-> "a"],
                    FallbackWarning>>
    /\ attempts = <<[ext |-> "a", ok |-> FALSE], [ext |-> "b", ok |-> FALSE]>>
    /\ exc.origin = "build_extension"

\* C12 as stated: a run that ends with a successful installation, and in which
\* nothing but extensions or sub-projects failed, has installed every extension
\* whose build did not fail.
C12_NothingDiscarded ==
    (pc = "done" /\ outcome \in {"A_success", "B_success"} /\ exc.origin # "setup")
       => installed.exts = OkNames(attempts)

\* C12 (amended): a run that ends with a successful State A installation has
\* installed exactly the extensions whose build ran and did not raise, and when
\* the build loop was entered every extension of every sub-project that loaded
\* was attempted; a run that ends through State B has installed no extension.
C12_StateAKeepsBuilt ==
    /\ outcome = "A_success"
          => /\ installed = [pure |-> TRUE, exts |-> OkNames(attempts)]
             /\ idx >= 1
                   => AttemptedNames = Contribution("msgpack") \o Contribution("wrapt")
                                          \o Contribution("psutil")
    /\ outcome = "B_success" => installed = [pure |-> TRUE, exts |-> <<>>]

C12_Witness ==
    /\ outcome = "A_success"
    /\ loaded["msgpack"].status = "raised"
    /\ loaded["wrapt"] = [status |-> "returned", exts |-> <<"a", "b">>]
    /\ loaded["psutil"] = [status |-> "returned", exts |-> <<"a">>]
    /\ attempts = <<[ext |-> "a", ok |-> TRUE], [ext |-> "b", ok |-> FALSE],
                    [ext |-> "a", ok |-> TRUE]>>
    /\ installed = [pure |-> TRUE, exts |-> <<"a", "a">>]

C14_BaseUntouched ==
    /\ Snapshot(setup_kwargs, heap) = BaseConfig
    /\ Len(calls) >= 1
          => /\ calls[1].has_ext_modules
             /\ calls[1].ext_modules = exts
             /\ calls[1].cmdclass = [c \in {"test", "build_ext"} |->
                                        IF c = "test" THEN "Tox" ELSE "optional_build_ext"]
    /\ Len(calls) = 2
          => /\ calls[2] = BaseConfig
             /\ DOMAIN calls[2].cmdclass = {"test"}

C14_Witness ==
    /\ pc = "done"
    /\ outcome \in {"B_success", "B_failed"}
    /\ Len(calls) = 2
    /\ calls[1].ext_modules = <<"a", "b">>
    /\ "build_ext" \in DOMAIN calls[1].cmdclass
    /\ attempts # <<>>
    /\ ~calls[2].has_ext_modules
    /\ DOMAIN calls[2].cmdclass = {"test"}

\* C15: an exception caught by the handler of line 198 is re-raised iff
\* DDTRACE_BUILD_RAISE is exactly "TRUE"; when it is unset or has another value
\* the run goes on to State B.
C15_ExactStep ==
    (pc = "except" /\ exc.kind \in ExceptionKinds)
       => IF environ.DDTRACE_BUILD_RAISE = "TRUE"
          THEN pc' = "done" /\ outcome' = "A_reraised" /\ calls' = calls
          ELSE pc' = "setup_fallback" /\ outcome' = "running"
                  /\ warnings' = Append(warnings, FallbackWarning)

C15_ExactlyTRUE ==
    /\ [](outcome = "A_reraised" <=> (pc = "done" /\ exc.kind \in ExceptionKinds
                                       /\ environ.DDTRACE_BUILD_RAISE = "TRUE"
                                       /\ exc.origin # "fallback"))
    /\ [][C15_ExactStep]_vars

C15_Witness ==
    /\ outcome = "B_success"
    /\ environ.DDTRACE_BUILD_RAISE = "true"
    /\ exc.origin = "build_run"
    /\ Len(calls) = 2
    /\ WarningsOf("fallback") = <<FallbackWarning>>

\* C16: of the errors build_ext.run raises outside an extension's build, run()
\* catches the platform error only; any other one leaves the build step and
\* the setup call and arrives at the try block's handler. A platform error
\* raised by one extension's build is caught by build_extension: the loop goes
\* on and run()'s handler is not reached.
C16_LevelStep ==
    /\ (pc = "build_ext_run_except" /\ exc.origin = "build_run")
          => IF exc.kind = "DistutilsPlatformError"
             THEN pc' = "setup_finish" /\ exc' = NoExc
             ELSE pc' = "setup_raise" /\ exc' = exc /\ warnings' = warnings
    /\ pc = "setup_raise"
          => /\ pc' = "except"
             /\ exc'.origin = exc.origin
             /\ exc'.kind \in {exc.kind, "SystemExit"}
             /\ warnings' = warnings
    /\ (pc = "build_extension_except" /\ exc.kind = "DistutilsPlatformError")
          => /\ pc' = "build_extension"
             /\ idx' = idx + 1
             /\ exc' = NoExc
             /\ WarningsOf("build")' = WarningsOf("build")
             /\ Len(WarningsOf("extension")') = Len(WarningsOf("extension")) + 1

C16_WholeBuildLevel ==
    /\ []((pc = "build_ext_run_except" /\ exc.origin = "build_extension")
            => exc.kind # "DistutilsPlatformError")
    /\ [][C16_LevelStep]_vars

C16_Witness ==
    /\ pc = "except"
    /\ exc = [kind |-> "CCompilerError", origin |-> "build_run"]
    /\ exts = <<"a", "b">>
    /\ attempts = <<>>
    /\ built = <<>>
    /\ WarningsOf("build") = <<>>

\* C17: a run ends in one of four ways: State A succeeded, State A failed and
\* the exception went on under strict mode, State B succeeded, State B failed;
\* setup() is called at most twice.
C17_FourOutcomes ==
    /\ Len(calls) <= 2
    /\ pc = "done"
          => \/ outcome \in {"A_success", "B_success", "B_failed"}
             \/ environ.DDTRACE_BUILD_RAISE = "TRUE"

\* C18: with DDTRACE_BUILD_TRACE set to "TRUE" an exception of State A is
\* re-raised: State B is not entered and no fallback warning is printed.
C18_TraceVariable ==
    environ.DDTRACE_BUILD_TRACE = "TRUE"
       => /\ pc # "setup_fallback"
          /\ outcome \notin {"B_success", "B_failed"}
          /\ WarningsOf("fallback") = <<>>

----------------------------------------------------------------------------
TypeOK ==
    /\ pc \in {"msgpack", "wrapt", "psutil", "configure", "setup", "build_ext_run",
               "build_ext_run_except",
               "build_extension", "build_extension_except", "setup_raise", "setup_finish", "except",
               "setup_fallback", "done"}
    /\ outcome \in {"running", "A_success", "A_reraised", "A_uncaught",
                    "B_success", "B_failed"}
    /\ exc.kind \in Outcomes
    /\ (pc = "done") <=> (outcome # "running")
====
